---- MODULE Spec2Model ----
(***************************************************************************)
(* The resilient request core of portainer-cli: internal/client Client     *)
(* (newRequest, do, DoRequest, checkResponse, isRetryableError) and the    *)
(* resource services that drive it.  One client, used sequentially: a      *)
(* service call builds a request, do() makes one HTTP attempt per step     *)
(* against a nondeterministic server / network, and the caller of do()     *)
(* interprets what do() returned.                                          *)
(***************************************************************************)
EXTENDS Integers, Sequences, FiniteSets, TLC

\* Largest retry bound handed to WithMaxRetries in the model.
MaxRetries == 2

----------------------------------------------------------------------------
(* Values *)

\* Bytes are small integers: '-' = 45, the digit d is 48 + d.
\* The in-memory payloads a caller hands to DoRequest (field values).
Payloads == {<<1, 2>>, <<2, 1>>}

\* json.Marshal of a payload: each field value serialized to its digit.
Marshal(p) == [i \in 1..Len(p) |-> 48 + p[i]]

\* multipart.Writer output for the Name and StackFileContent fields.
MultipartBody(name, content) == name \o <<45>> \o content

\* A request body stream: the underlying bytes and the read position.
NoStream == [data |-> <<>>, pos |-> 0]
NewReader(bytes) == [data |-> bytes, pos |-> 0]
Remaining(s) == SubSeq(s.data, s.pos + 1, Len(s.data))

\* Transport errors returned by http.Client.Do (always a *url.Error):
\* Timeout()/Temporary() of the url.Error and the phrases of its Error() text.
TransportErrors ==
  [ timeout |-> [isTimeout |-> TRUE,  isTemporary |-> FALSE,
                 text |-> <<"context deadline exceeded", "Client.Timeout exceeded">>],
    refused |-> [isTimeout |-> FALSE, isTemporary |-> FALSE,
                 text |-> <<"dial tcp", "connection refused">>],
    tls     |-> [isTimeout |-> FALSE, isTemporary |-> FALSE,
                 text |-> <<"tls", "certificate signed by unknown authority">>] ]

ErrKinds == DOMAIN TransportErrors

\* strings.Contains over the phrases of an error text.
Contains(text, phrase) == \E i \in 1..Len(text) : text[i] = phrase

isRetryableError_NoRefused(e) ==
  IF e = "none" THEN FALSE
  ELSE LET u == TransportErrors[e] IN
       \/ u.isTimeout \/ u.isTemporary
       \/ Contains(u.text, "connection reset")
       \/ Contains(u.text, "timeout")

isRetryableError_TextOnly(e) ==
  IF e = "none" THEN FALSE
  ELSE LET u == TransportErrors[e] IN
       \/ Contains(u.text, "connection refused")
       \/ Contains(u.text, "connection reset")
       \/ Contains(u.text, "timeout")

isRetryableError_Always(e) == e # "none"

\* isRetryableError: url.Error Timeout() or Temporary(), or an error text
\* containing "connection refused", "connection reset" or "timeout".
isRetryableError(e) ==
  IF e = "none" THEN FALSE
  ELSE LET u == TransportErrors[e] IN
       \/ u.isTimeout \/ u.isTemporary
       \/ Contains(u.text, "connection refused")
       \/ Contains(u.text, "connection reset")
       \/ Contains(u.text, "timeout")

\* HTTP statuses the server may answer with.
Statuses == {200, 204, 301, 401, 403, 404, 500, 503}

\* What one call of http.Client.Do yields: a response status or an error.
Outcomes ==
  [status : Statuses, err : {"none"}] \cup [status : {0}, err : ErrKinds]

IsResponse(o) == o.err = "none"
Is5xx(o) == IsResponse(o) /\ o.status >= 500
Is2xx(o) == IsResponse(o) /\ o.status >= 200 /\ o.status < 300

\* Response bodies as the interpreter sees them: whether io.ReadAll succeeds,
\* the raw text, whether json.Unmarshal into APIError succeeds, the decoded
\* message, whether the body decodes into the caller's target, and the jwt
\* field of a login response.
RespBodies ==
  { [readOK |-> TRUE,  raw |-> "{message:unauthorized}", valid |-> TRUE,
     message |-> "unauthorized", decodes |-> TRUE, jwt |-> ""],
    [readOK |-> TRUE,  raw |-> "{jwt:j1}", valid |-> TRUE,
     message |-> "", decodes |-> TRUE, jwt |-> "j1"],
    [readOK |-> TRUE,  raw |-> "<html>", valid |-> FALSE,
     message |-> "", decodes |-> FALSE, jwt |-> ""],
    [readOK |-> TRUE,  raw |-> "{message:m,details:5}", valid |-> FALSE,
     message |-> "m", decodes |-> FALSE, jwt |-> ""],
    [readOK |-> FALSE, raw |-> "", valid |-> FALSE,
     message |-> "", decodes |-> FALSE, jwt |-> ""] }

NoBody == [readOK |-> TRUE, raw |-> "unread", valid |-> FALSE,
           message |-> "", decodes |-> FALSE, jwt |-> ""]

----------------------------------------------------------------------------
(* State *)

VARIABLES
  apiKey,      \* Client.apiKey
  token,       \* Client.token
  username,    \* Client.username
  maxRetries,  \* Client.maxRetries
  dryRun,      \* whether the caller asked for dry-run (CHANGELOG 1.0.8); the Client
               \* struct has no field for it and no operation reads it
  pc,          \* "idle", "do" (inside the loop of do), "ret" (do returned), "done"
  svc,         \* the service operation in progress
  entry,       \* the Client method the service entered: "DoRequest" or "do"
  req,         \* the *http.Request built by newRequest
  attempt,     \* loop variable of do
  outcomes,    \* what each http.Client.Do call of this operation yielded
  firstSent,   \* the body req.Body offered to the first http.Client.Do call
  lastSent,    \* the body req.Body offered to the latest http.Client.Do call
  resp,        \* what do returned: [present, status, err]
  bodyRead,    \* the response body the interpreter read
  result,      \* what the operation returned to its caller
  open,        \* response bodies obtained by this operation and not yet closed
  stream,      \* whether the operation handed a response body to its caller
  fnCall,      \* the latest call of a function of the library: [fn, in, out]
  Profiles,    \* Config.Profiles
  CurrentProfile,  \* Config.CurrentProfile
  cfgCall,     \* the latest Config method call: [op, name, err, before]
  runs,        \* two runs of one operation, with verbose on and off
  disk,        \* the configuration file on disk: "intact", "unreadable", "partial"
  watch        \* the state of a watch.Watch call

vars == <<apiKey, token, username, maxRetries, dryRun, pc, svc, entry, req, attempt,
          outcomes, firstSent, lastSent,
      resp, bodyRead, result, open, stream, fnCall, Profiles, CurrentProfile,
      cfgCall, runs, disk, watch>>

\* What no request operation writes: the client's fields other than the
\* token, and the state of the configuration package.
clientVars == <<apiKey, username, maxRetries, dryRun, fnCall, Profiles,
                CurrentProfile, cfgCall, runs, disk, watch>>

sideVars == <<runs, disk, watch>>

requestVars == <<pc, svc, entry, req, attempt, outcomes, firstSent, lastSent,
                 resp, bodyRead, result, open, stream>>

\* Profiles NewClient accepts (Profile.Validate: a credential is present).
ApiKeys == {"", "k1"}
Tokens == {"", "t1"}
Usernames == {"", "admin"}

\* URLs are strings, written as sequences of characters.
HTTP == <<"h", "t", "t", "p", ":", "/", "/">>
HTTPS == <<"h", "t", "t", "p", "s", ":", "/", "/">>

\* strings.HasPrefix, strings.TrimSuffix, strings.TrimPrefix
HasPrefix(str, prefix) ==
  /\ Len(prefix) <= Len(str)
  /\ SubSeq(str, 1, Len(prefix)) = prefix

HasSuffix(str, suffix) ==
  /\ Len(suffix) <= Len(str)
  /\ SubSeq(str, Len(str) - Len(suffix) + 1, Len(str)) = suffix

TrimSuffix(str, suffix) ==
  IF HasSuffix(str, suffix) THEN SubSeq(str, 1, Len(str) - Len(suffix)) ELSE str

TrimPrefix(str, prefix) ==
  IF HasPrefix(str, prefix) THEN SubSeq(str, Len(prefix) + 1, Len(str)) ELSE str

Validate_URLOnly(p) == p.URL # <<>>

\* Profile.Validate: the URL is required, and one of api key, username, token.
Validate(p) ==
  /\ p.URL # <<>>
  /\ ~(p.APIKey = "" /\ p.Username = "" /\ p.Token = "")

NoCall == [fn |-> "none"]
NoCfgCall == [op |-> "none"]

\* make(map[string]*Profile)
NoProfiles == [n \in {} |-> n]

NoReq == [method |-> "", path |-> "", XAPIKey |-> "", Authorization |-> <<>>,
          ContentType |-> "", hasGetBody |-> FALSE, jsonData |-> <<>>,
          Body |-> NoStream]

NoResp == [present |-> FALSE, status |-> 0, err |-> "none"]

NoResult == [kind |-> "none", status |-> 0,
             message |-> [form |-> "none", text |-> ""], wrap |-> ""]

\* One run of an operation entered through DoRequest.
NoRun == [pc |-> "idle", attempt |-> 0, req |-> NoReq, sent |-> <<>>,
          slept |-> 0, resp |-> NoResp, result |-> NoResult, printed |-> <<>>]

NoRuns == [v \in BOOLEAN |-> NoRun]

\* Watch has not been called.
NoWatch == [pc |-> "idle", clear |-> FALSE, cancelled |-> FALSE, tick |-> FALSE,
            calls |-> 0, ticks |-> 0, cleared |-> 0, running |-> 0, errs |-> 0,
            late |-> FALSE, ret |-> "none"]

\* No paired run, no watch, and a configuration file as it was written.
SideIdle ==
  /\ runs = NoRuns
  /\ disk = "intact"
  /\ watch = NoWatch

\* No library function and no Config method has been called.
LibraryIdle ==
  /\ SideIdle
  /\ fnCall = NoCall
  /\ Profiles = NoProfiles
  /\ CurrentProfile = ""
  /\ cfgCall = NoCfgCall

Init ==
  /\ \E p \in [URL : {HTTPS \o <<"h">>}, APIKey : ApiKeys, Token : Tokens,
               Username : Usernames] :
       /\ Validate(p)
       /\ apiKey = p.APIKey
       /\ token = p.Token
       /\ username = p.Username
  /\ maxRetries \in -1..MaxRetries
  /\ dryRun \in BOOLEAN
  /\ pc = "idle"
  /\ svc = "none"
  /\ entry = "none"
  /\ req = NoReq
  /\ attempt = 0
  /\ outcomes = <<>>
  /\ firstSent = <<>>
  /\ lastSent = <<>>
  /\ resp = NoResp
  /\ bodyRead = NoBody
  /\ result = NoResult
  /\ open = 0
  /\ stream = FALSE
  /\ LibraryIdle


----------------------------------------------------------------------------
(* Client: request construction *)

SetTokenTo_Keep(t) == token' = token

\* Client.SetToken
SetTokenTo(t) == token' = t

newRequest_TokenFirst(method, path, hasBody, payload) ==
  [ method |-> method, path |-> path,
    XAPIKey |-> IF token = "" /\ apiKey # "" THEN apiKey ELSE "",
    Authorization |-> IF token # "" THEN <<"Bearer ", token>> ELSE <<>>,
    ContentType |-> IF hasBody THEN "application/json" ELSE "",
    hasGetBody |-> hasBody,
    jsonData |-> IF hasBody THEN Marshal(payload) ELSE <<>>,
    Body |-> IF hasBody THEN NewReader(Marshal(payload)) ELSE NoStream ]

newRequest_NoGetBody(method, path, hasBody, payload) ==
  [ method |-> method, path |-> path,
    XAPIKey |-> IF apiKey # "" THEN apiKey ELSE "",
    Authorization |-> IF apiKey = "" /\ token # ""
                      THEN <<"Bearer ", token>> ELSE <<>>,
    ContentType |-> IF hasBody THEN "application/json" ELSE "",
    hasGetBody |-> FALSE,
    jsonData |-> IF hasBody THEN Marshal(payload) ELSE <<>>,
    Body |-> IF hasBody THEN NewReader(Marshal(payload)) ELSE NoStream ]

\* Client.newRequest: the body is marshalled once, GetBody re-reads the
\* captured bytes; X-API-KEY when the api key is set, else Bearer when the
\* token is set.
newRequest(method, path, hasBody, payload) ==
  [ method |-> method, path |-> path,
    XAPIKey |-> IF apiKey # "" THEN apiKey ELSE "",
    Authorization |-> IF apiKey = "" /\ token # ""
                      THEN <<"Bearer ", token>> ELSE <<>>,
    ContentType |-> IF hasBody THEN "application/json" ELSE "",
    hasGetBody |-> hasBody,
    jsonData |-> IF hasBody THEN Marshal(payload) ELSE <<>>,
    Body |-> IF hasBody THEN NewReader(Marshal(payload)) ELSE NoStream ]

----------------------------------------------------------------------------
(* Client.do *)

doDecision_No5xxRetry(att, o) ==
  IF o.err # "none"
  THEN IF att < maxRetries /\ isRetryableError(o.err) THEN "continue" ELSE "error"
  ELSE "break"

doDecision_Retry4xx(att, o) ==
  IF o.err # "none"
  THEN IF att < maxRetries /\ isRetryableError(o.err) THEN "continue" ELSE "error"
  ELSE IF o.status >= 400 /\ att < maxRetries THEN "continue" ELSE "break"

\* What the loop body of do decides after http.Client.Do yielded o on
\* attempt att: retry, return the error, or leave the loop with the response.
doDecision(att, o) ==
  IF o.err # "none"
  THEN IF att < maxRetries /\ isRetryableError(o.err) THEN "continue" ELSE "error"
  ELSE IF o.status >= 500 /\ att < maxRetries THEN "continue" ELSE "break"

\* The request as attempt att hands it to http.Client.Do: on a retry the
\* body is reset through GetBody when the request has one.
resetBody(r, att) ==
  IF att > 0 /\ r.hasGetBody
  THEN [r EXCEPT !.Body = NewReader(r.jsonData)]
  ELSE r

\* How many of the offered bytes the transport may have read when the
\* attempt ends: none when no connection was made, otherwise any prefix.
Consumable(o, offered) ==
  IF o.err = "refused" THEN {0} ELSE 0..Len(offered)

Begin_ResetsToken(s, e, r) ==
  /\ pc = "idle"
  /\ svc' = s
  /\ entry' = e
  /\ req' = r
  /\ attempt' = 0
  /\ outcomes' = <<>>
  /\ firstSent' = <<>>
  /\ lastSent' = <<>>
  /\ resp' = NoResp
  /\ bodyRead' = NoBody
  /\ result' = NoResult
  /\ open' = 0
  /\ stream' = FALSE
  /\ pc' = IF 0 <= maxRetries THEN "do" ELSE "ret"
  /\ token' = ""
  /\ UNCHANGED clientVars

\* A service starts do(r): the loop is entered when 0 <= maxRetries,
\* otherwise do returns (nil, nil) at once.
Begin(s, e, r) ==
  /\ pc = "idle"
  /\ svc' = s
  /\ entry' = e
  /\ req' = r
  /\ attempt' = 0
  /\ outcomes' = <<>>
  /\ firstSent' = <<>>
  /\ lastSent' = <<>>
  /\ resp' = NoResp
  /\ bodyRead' = NoBody
  /\ result' = NoResult
  /\ open' = 0
  /\ stream' = FALSE
  /\ pc' = IF 0 <= maxRetries THEN "do" ELSE "ret"
  /\ UNCHANGED <<token, clientVars>>

Close_Leak(n) == n

\* resp.Body.Close() on one of n open response bodies.
Close(n) == n - 1

\* One iteration of the loop in do: reset the body on a retry, call
\* http.Client.Do, then continue, return the error or break.
HttpAttempt ==
  /\ pc = "do"
  /\ attempt <= maxRetries
  /\ \E o \in Outcomes :
       LET r1 == resetBody(req, attempt)
           offered == Remaining(r1.Body)
           d == doDecision(attempt, o)
       IN \E k \in Consumable(o, offered) :
            /\ req' = [r1 EXCEPT !.Body.pos = @ + k]
            /\ outcomes' = Append(outcomes, o)
            /\ firstSent' = IF attempt = 0 THEN offered ELSE firstSent
            /\ lastSent' = offered
            /\ open' = IF o.err # "none" THEN open
                       ELSE IF d = "continue" THEN Close(open + 1) ELSE open + 1
            /\ IF d = "continue"
               THEN /\ attempt' = attempt + 1
                    /\ pc' = "do"
                    /\ resp' = NoResp
               ELSE /\ attempt' = attempt
                    /\ pc' = "ret"
                    /\ resp' = IF d = "error"
                               THEN [present |-> FALSE, status |-> 0, err |-> o.err]
                               ELSE [present |-> TRUE, status |-> o.status, err |-> "none"]
  /\ UNCHANGED <<token, clientVars, svc, entry, bodyRead, result, stream>>


----------------------------------------------------------------------------
(* Response interpretation *)

NilErr == [kind |-> "nil", status |-> 0, message |-> [form |-> "none", text |-> ""], wrap |-> ""]

APIError(status, form, text) ==
  [kind |-> "APIError", status |-> status,
   message |-> [form |-> form, text |-> text], wrap |-> ""]

\* fmt.Errorf("request failed: %w", err) returned by do.
TransportFailure(e) ==
  [kind |-> "TransportFailure", status |-> 0,
   message |-> [form |-> "request failed", text |-> e], wrap |-> ""]

Success(status) ==
  [kind |-> "success", status |-> status, message |-> [form |-> "none", text |-> ""], wrap |-> ""]

\* fmt.Errorf("failed to decode response: %w", err)
DecodeFailure(status) ==
  [kind |-> "DecodeFailure", status |-> status,
   message |-> [form |-> "failed to decode response", text |-> ""], wrap |-> ""]

\* A nil *http.Response dereferenced by the caller of do.
Panic == [kind |-> "panic", status |-> 0,
          message |-> [form |-> "nil pointer dereference", text |-> ""], wrap |-> ""]

\* A plain fmt.Errorf error of a service method.
PlainError(status, text) ==
  [kind |-> "error", status |-> status,
   message |-> [form |-> "plain", text |-> text], wrap |-> ""]

checkResponse_KeepPartial(status, b) ==
  IF status >= 200 /\ status < 300 THEN NilErr
  ELSE IF ~b.readOK
       THEN APIError(status, "readfail", "failed to read response body")
       ELSE IF b.message # ""
            THEN APIError(status, "decoded", b.message)
            ELSE APIError(status, "fallback", b.raw)

\* checkResponse: nil for 2xx; otherwise an APIError carrying the status and
\* the decoded message, or "HTTP <status>: <raw body>", or, when the body
\* cannot be read, "HTTP <status>: failed to read response body".
checkResponse(status, b) ==
  IF status >= 200 /\ status < 300 THEN NilErr
  ELSE IF ~b.readOK
       THEN APIError(status, "readfail", "failed to read response body")
       ELSE IF b.valid /\ b.message # ""
            THEN APIError(status, "decoded", b.message)
            ELSE APIError(status, "fallback", b.raw)

\* json.NewDecoder(resp.Body).Decode(result)
Decode(status, b) ==
  IF b.readOK /\ b.decodes THEN Success(status) ELSE DecodeFailure(status)

DoRequestResult_DecodeOn204(r, b, hasTarget) ==
  IF r.err # "none" THEN TransportFailure(r.err)
  ELSE IF ~r.present THEN Panic
  ELSE LET cr == checkResponse(r.status, b) IN
       IF cr.kind # "nil" THEN cr
       ELSE IF hasTarget THEN Decode(r.status, b)
       ELSE Success(r.status)

\* The part of DoRequest after do returned r: the error of do, the nil
\* response of an empty loop, checkResponse, then the decode into the target.
DoRequestResult(r, b, hasTarget) ==
  IF r.err # "none" THEN TransportFailure(r.err)
  ELSE IF ~r.present THEN Panic
  ELSE LET cr == checkResponse(r.status, b) IN
       IF cr.kind # "nil" THEN cr
       ELSE IF hasTarget /\ r.status # 204 THEN Decode(r.status, b)
       ELSE Success(r.status)

\* fmt.Errorf(prefix + ": %w", err): the error is wrapped, a nil error and a
\* panic are not.
Wrap(res, prefix) ==
  IF res.kind \in {"success", "stream", "panic"} THEN res
  ELSE [res EXCEPT !.wrap = prefix]

\* Whether DoRequest reads the response body at all.
DoRequestReads(r, hasTarget) ==
  /\ r.err = "none" /\ r.present
  /\ \/ ~(r.status >= 200 /\ r.status < 300)
     \/ hasTarget /\ r.status # 204

\* err.(*APIError): the assertion holds for an *APIError itself, not for an
\* error that wraps one.
IsAPIError(e) == e.kind = "APIError" /\ e.wrap = ""

IsNotFoundError(e) == IsAPIError(e) /\ e.status = 404

IsUnauthorizedError(e) == IsAPIError(e) /\ e.status = 401

IsForbiddenError_AnyDenied(e) == IsAPIError(e) /\ e.status \in {401, 403}

IsForbiddenError(e) == IsAPIError(e) /\ e.status = 403

\* The callers of do that only run checkResponse (Pull, Tag, Push, Prune).
CheckOnlyResult(r, b) ==
  IF r.err # "none" THEN TransportFailure(r.err)
  ELSE IF ~r.present THEN Panic
  ELSE LET cr == checkResponse(r.status, b) IN
       IF cr.kind # "nil" THEN cr ELSE Success(r.status)

CheckOnlyReads(r) ==
  r.err = "none" /\ r.present /\ ~(r.status >= 200 /\ r.status < 300)

\* The operation returns res to its caller, having read body b or none.
\* The response body, if there is one, is closed on the way out unless it is
\* the stream the caller receives.
Finish(s, res, b, reads) ==
  /\ pc = "ret"
  /\ svc = s
  /\ result' = res
  /\ bodyRead' = IF reads THEN b ELSE NoBody
  /\ stream' = (res.kind = "stream")
  /\ open' = IF resp.present /\ res.kind # "stream" THEN Close(open) ELSE open
  /\ pc' = "done"
  /\ UNCHANGED <<clientVars, svc, entry, req, attempt, outcomes, firstSent,
                 lastSent, resp>>

----------------------------------------------------------------------------
(* Resource services *)

\* EnvironmentService.Get: client.Get(path, &environment)
EnvironmentGet ==
  Begin("EnvironmentGet", "DoRequest", newRequest("GET", "endpoints/1", FALSE, <<>>))

EnvironmentGetReturn ==
  /\ \E b \in RespBodies :
       Finish("EnvironmentGet",
              Wrap(DoRequestResult(resp, b, TRUE), "failed to get environment"), b,
              DoRequestReads(resp, TRUE))
  /\ UNCHANGED token

\* StackService.Update: client.DoRequest(PUT, path, payload, nil)
StackUpdate ==
  \E p \in Payloads :
    Begin("StackUpdate", "DoRequest", newRequest("PUT", "stacks/1", TRUE, p))

StackUpdateReturn ==
  /\ \E b \in RespBodies :
       Finish("StackUpdate", DoRequestResult(resp, b, FALSE), b,
              DoRequestReads(resp, FALSE))
  /\ UNCHANGED token

StackNames == {<<49>>}
StackFiles == {<<50>>}

\* StackService.Deploy: newRequest with a nil body, then the multipart
\* buffer is attached as req.Body by hand (no GetBody), then do.
StackDeploy ==
  \E name \in StackNames, content \in StackFiles :
    LET r == newRequest("POST", "stacks", FALSE, <<>>) IN
    Begin("StackDeploy", "do",
          [r EXCEPT !.ContentType = "multipart/form-data",
                    !.Body = NewReader(MultipartBody(name, content))])

StackDeployReturn ==
  /\ \E b \in RespBodies :
       LET c == CheckOnlyResult(resp, b) IN
       Finish("StackDeploy",
              IF c.kind = "success" THEN Decode(resp.status, b)
              ELSE IF c.kind = "TransportFailure"
                   THEN Wrap(c, "failed to deploy stack") ELSE c,
              b, resp.err = "none" /\ resp.present)
  /\ UNCHANGED token

\* ImageService.Pull: newRequest, do, checkResponse.
ImagePull ==
  Begin("ImagePull", "do", newRequest("POST", "images/create", FALSE, <<>>))

ImagePullReturn ==
  /\ \E b \in RespBodies :
       LET c == CheckOnlyResult(resp, b) IN
       Finish("ImagePull",
              IF c.kind = "TransportFailure"
              THEN Wrap(c, "failed to pull image") ELSE c,
              b, CheckOnlyReads(resp))
  /\ UNCHANGED token

\* ContainerService.Logs: newRequest, do, the stream when the status is 200.
ContainerLogs ==
  Begin("ContainerLogs", "do", newRequest("GET", "containers/c/logs", FALSE, <<>>))

ContainerLogsReturn ==
  /\ Finish("ContainerLogs",
            IF resp.err # "none"
            THEN Wrap(TransportFailure(resp.err), "failed to get logs")
            ELSE IF ~resp.present THEN Panic
            ELSE IF resp.status # 200
                 THEN PlainError(resp.status, "failed to get logs")
                 ELSE [Success(200) EXCEPT !.kind = "stream"],
            NoBody, FALSE)
  /\ UNCHANGED token

\* AuthService.Login: client.Post("auth", req, &resp), then SetToken(jwt).
Credentials == {<<>>, <<1>>}

AuthLogin ==
  \E u \in Credentials, pw \in Credentials :
    /\ u # <<>> /\ pw # <<>>
    /\ Begin("AuthLogin", "DoRequest", newRequest("POST", "auth", TRUE, u \o pw))

AuthLoginRejected ==
  /\ pc = "idle"
  /\ \E u \in Credentials, pw \in Credentials :
       /\ u = <<>> \/ pw = <<>>
       /\ svc' = "AuthLogin"
       /\ entry' = "none"
       /\ result' = PlainError(0, "username and password are required")
       /\ pc' = "done"
       /\ req' = NoReq /\ attempt' = 0 /\ outcomes' = <<>>
       /\ firstSent' = <<>> /\ lastSent' = <<>>
       /\ resp' = NoResp /\ bodyRead' = NoBody
       /\ open' = 0 /\ stream' = FALSE
  /\ UNCHANGED <<token, clientVars>>

LoginOutcome_AcceptsEmptyJWT(r, b) ==
  LET d == DoRequestResult(r, b, TRUE)
      jwt == IF DoRequestReads(r, TRUE) THEN b.jwt ELSE ""
      res == IF d.kind = "panic" THEN d
             ELSE IF d.kind # "success"
                  THEN IF d.kind = "APIError" /\ d.status = 401
                       THEN PlainError(0, "invalid credentials")
                       ELSE Wrap(d, "login failed")
             ELSE d
  IN [res |-> res, jwt |-> jwt]

\* The part of Login after client.Post returned: "invalid credentials" for
\* a 401, "login failed" for another error, "no token returned from server"
\* for an empty JWT, otherwise the JWT.
LoginOutcome(r, b) ==
  LET d == DoRequestResult(r, b, TRUE)
      jwt == IF DoRequestReads(r, TRUE) THEN b.jwt ELSE ""
      res == IF d.kind = "panic" THEN d
             ELSE IF d.kind # "success"
                  THEN IF IsUnauthorizedError(d)
                       THEN PlainError(0, "invalid credentials")
                       ELSE Wrap(d, "login failed")
             ELSE IF jwt = ""
                  THEN PlainError(0, "no token returned from server")
                  ELSE d
  IN [res |-> res, jwt |-> jwt]

AuthLoginReturn ==
  \E b \in RespBodies :
    LET o == LoginOutcome(resp, b)
    IN /\ Finish("AuthLogin", o.res, b, DoRequestReads(resp, TRUE))
       /\ IF o.res.kind = "success" THEN SetTokenTo(o.jwt) ELSE UNCHANGED token

\* AuthService.Logout: newRequest, do, SetToken("") whatever the status.
AuthLogout ==
  Begin("AuthLogout", "do", newRequest("POST", "auth/logout", FALSE, <<>>))

LogoutResult_ChecksStatus(r) ==
  IF r.err # "none" THEN Wrap(TransportFailure(r.err), "logout failed")
  ELSE IF ~r.present THEN Panic
  ELSE IF r.status >= 200 /\ r.status < 300 THEN Success(r.status)
  ELSE APIError(r.status, "fallback", "")

\* The part of Logout after do returned r: the status is not looked at.
LogoutResult(r) ==
  IF r.err # "none" THEN Wrap(TransportFailure(r.err), "logout failed")
  ELSE IF ~r.present THEN Panic
  ELSE Success(r.status)

AuthLogoutReturn ==
  LET res == LogoutResult(resp)
  IN /\ Finish("AuthLogout", res, NoBody, FALSE)
     /\ IF res.kind = "success" THEN SetTokenTo("") ELSE UNCHANGED token

\* Client.SetToken called between operations.
SetToken ==
  /\ pc = "idle"
  /\ \E t \in Tokens \cup {"j1"} : SetTokenTo(t)
  /\ UNCHANGED <<clientVars, requestVars>>

\* The command is over; the request descriptor is discarded.
Return ==
  /\ pc = "done"
  /\ pc' = "idle"
  /\ svc' = "none"
  /\ entry' = "none"
  /\ req' = NoReq
  /\ attempt' = 0
  /\ outcomes' = <<>>
  /\ firstSent' = <<>>
  /\ lastSent' = <<>>
  /\ resp' = NoResp
  /\ bodyRead' = NoBody
  /\ result' = NoResult
  /\ open' = 0
  /\ stream' = FALSE
  /\ UNCHANGED <<token, clientVars>>

Next ==
  \/ SetToken
  \/ EnvironmentGet \/ EnvironmentGetReturn
  \/ StackUpdate \/ StackUpdateReturn
  \/ StackDeploy \/ StackDeployReturn
  \/ ImagePull \/ ImagePullReturn
  \/ ContainerLogs \/ ContainerLogsReturn
  \/ AuthLogin \/ AuthLoginRejected \/ AuthLoginReturn
  \/ AuthLogout \/ AuthLogoutReturn
  \/ HttpAttempt
  \/ Return

Spec == Init /\ [][Next]_vars


----------------------------------------------------------------------------
(* Properties *)

Attempts == Len(outcomes)
LastOutcome == outcomes[Len(outcomes)]
EveryOutcome(P(_)) == \A i \in 1..Len(outcomes) : P(outcomes[i])
IsTimeout(o) == o.err = "timeout"
IsRefusedOr5xx(o) == o.err = "refused" \/ Is5xx(o)
IsTerminalStatus(o) == IsResponse(o) /\ o.status >= 200 /\ o.status < 500

\* C1: with a retry bound N >= 0 and a server answering every attempt with a
\* 5xx status, an operation entered through DoRequest never makes more than
\* N+1 attempts, is still retrying before attempt N+1, and ends after exactly
\* N+1 attempts with an APIError whose StatusCode is the last status received.
C1_RetriesExhaustedOn5xx ==
  (maxRetries >= 0 /\ entry = "DoRequest" /\ Attempts >= 1 /\ EveryOutcome(Is5xx))
    => /\ Attempts <= maxRetries + 1
       /\ Attempts <= maxRetries => pc = "do"
       /\ pc = "done" =>
            /\ Attempts = maxRetries + 1
            /\ result.kind = "APIError"
            /\ result.status = LastOutcome.status

C1_Witness ==
  /\ pc = "done" /\ svc = "StackUpdate" /\ maxRetries = 2
  /\ outcomes = << [status |-> 503, err |-> "none"],
                   [status |-> 503, err |-> "none"],
                   [status |-> 500, err |-> "none"] >>
  /\ result.kind = "APIError" /\ result.status = 500

\* C2: with a retry bound N >= 0 and every attempt ending in a transport
\* timeout, the operation is still retrying before attempt N+1 and do returns
\* after exactly N+1 attempts with no response and an error, which the
\* operation reports as a Transport Failure (not an APIError).
C2_RetriesExhaustedOnTimeout ==
  (maxRetries >= 0 /\ Attempts >= 1 /\ EveryOutcome(IsTimeout))
    => /\ Attempts <= maxRetries + 1
       /\ Attempts <= maxRetries => pc = "do"
       /\ pc \in {"ret", "done"} =>
            /\ Attempts = maxRetries + 1
            /\ ~resp.present /\ resp.err = "timeout"
       /\ pc = "done" => result.kind = "TransportFailure"

C2_Witness ==
  /\ pc = "done" /\ svc = "EnvironmentGet" /\ maxRetries = 2 /\ Attempts = 3
  /\ EveryOutcome(IsTimeout)
  /\ result.kind = "TransportFailure"

\* C3: an attempt that yields a response with status in [200,500) is the
\* last attempt of the operation: do has returned that response, and the
\* interpreter treats 2xx as the success path and 3xx/4xx as an APIError
\* with that status.
C3_TerminalStatusEndsDo ==
  \A i \in 1..Len(outcomes) :
    IsTerminalStatus(outcomes[i]) =>
      /\ i = Len(outcomes)
      /\ pc \in {"ret", "done"}
      /\ resp = [present |-> TRUE, status |-> outcomes[i].status, err |-> "none"]
      /\ (pc = "done" /\ svc \in {"EnvironmentGet", "StackUpdate", "ImagePull", "StackDeploy"}) =>
           IF Is2xx(outcomes[i])
           THEN result.kind \in {"success", "DecodeFailure"}
           ELSE result.kind = "APIError" /\ result.status = outcomes[i].status

C3_Witness ==
  /\ pc = "done" /\ svc = "ImagePull" /\ maxRetries = 2
  /\ outcomes = << [status |-> 503, err |-> "none"],
                   [status |-> 404, err |-> "none"] >>
  /\ result.kind = "APIError" /\ result.status = 404

\* C4: with retry bound N, while the first k <= N attempts have all failed
\* with connection refused or a 5xx response the operation goes on to
\* attempt k+1, and when that attempt returns 2xx do returns that response
\* with no error, checkResponse accepts it and DoRequest ends with success
\* (the body decoding into the target when one is read).
C4_SuccessAfterRetryableFailures ==
  /\ (Attempts >= 1 /\ Attempts <= maxRetries /\ EveryOutcome(IsRefusedOr5xx))
       => pc = "do" /\ attempt = Attempts
  /\ (pc = "done" /\ Attempts >= 1 /\ Is2xx(LastOutcome)
      /\ \A i \in 1..(Len(outcomes) - 1) : IsRefusedOr5xx(outcomes[i]))
       => /\ Attempts <= maxRetries + 1
          /\ resp = [present |-> TRUE, status |-> LastOutcome.status, err |-> "none"]
          /\ checkResponse(resp.status, bodyRead) = NilErr
          /\ (entry = "DoRequest" /\ svc # "AuthLogin" /\ bodyRead.readOK
              /\ (bodyRead = NoBody \/ bodyRead.decodes))
               => result.kind = "success"

C4_Witness ==
  /\ pc = "done" /\ svc = "EnvironmentGet" /\ maxRetries = 2
  /\ outcomes = << [status |-> 0, err |-> "refused"],
                   [status |-> 0, err |-> "refused"],
                   [status |-> 200, err |-> "none"] >>
  /\ result.kind = "success"

\* C5: for a request DoRequest built with a body, every attempt is offered
\* the bytes newRequest captured: the body of each retry equals the body of
\* the first attempt.
C5_RetryBodyIdentical ==
  (svc \in {"StackUpdate", "AuthLogin"} /\ Attempts >= 1)
    => /\ firstSent = req.jsonData
       /\ lastSent = firstSent
       /\ firstSent # <<>>

C5_Witness ==
  /\ svc = "StackUpdate" /\ Attempts = 2 /\ Is5xx(outcomes[1])
  /\ lastSent = Marshal(<<2, 1>>) /\ firstSent = lastSent

\* C6: whenever StackService.Deploy is retried, the multipart body offered
\* to the retry equals the body offered to the first attempt.
C6_DeployRetryBodyIdentical ==
  (svc = "StackDeploy" /\ Attempts >= 1) => lastSent = firstSent

\* C7: a request built by newRequest carries X-API-KEY and no Authorization
\* when the api key is set; exactly Bearer <token> and no X-API-KEY when only
\* the token is set; neither when both are empty; never both.
C7_AuthHeaderSelection ==
  pc \in {"do", "ret"} =>
    /\ apiKey # "" => req.XAPIKey = apiKey /\ req.Authorization = <<>>
    /\ (apiKey = "" /\ token # "") =>
         req.XAPIKey = "" /\ req.Authorization = <<"Bearer ", token>>
    /\ (apiKey = "" /\ token = "") =>
         req.XAPIKey = "" /\ req.Authorization = <<>>
    /\ ~(req.XAPIKey # "" /\ req.Authorization # <<>>)

C7_Witness ==
  /\ pc = "do" /\ apiKey = "k1" /\ token = "j1"
  /\ req.XAPIKey = "k1" /\ req.Authorization = <<>>

\* C8: with dry-run requested, no operation makes an HTTP attempt.
C8_DryRunNoNetwork ==
  dryRun => Attempts = 0

\* C9: every HTTP attempt of a resource service is made inside
\* Client.DoRequest.
C9_OnlyThroughDoRequest ==
  Attempts >= 1 => entry = "DoRequest"

InterpretedByCheckResponse ==
  /\ pc = "done" /\ svc \in {"EnvironmentGet", "StackUpdate", "ImagePull", "StackDeploy"}
  /\ resp.present /\ ~(resp.status >= 200 /\ resp.status < 300)

\* C10 (as stated): for every non-2xx response the result is an APIError
\* with the response status whose message is the decoded message when the
\* body decodes with a non-empty message, and otherwise the status plus the
\* raw body.
C10_Original ==
  InterpretedByCheckResponse =>
    /\ result.kind = "APIError" /\ result.status = resp.status
    /\ result.message =
         IF bodyRead.valid /\ bodyRead.message # ""
         THEN [form |-> "decoded", text |-> bodyRead.message]
         ELSE [form |-> "fallback", text |-> bodyRead.raw]

\* C10 (amended): for every non-2xx response the result is an APIError with
\* the response status; its message is the decoded message when the body is
\* read and decodes with a non-empty message, the status plus the raw body
\* when the body is read but does not, and the status plus "failed to read
\* response body" when the body cannot be read.
C10_CheckResponseClassifies ==
  InterpretedByCheckResponse =>
    /\ result.kind = "APIError" /\ result.status = resp.status
    /\ result.message =
         IF ~bodyRead.readOK
         THEN [form |-> "readfail", text |-> "failed to read response body"]
         ELSE IF bodyRead.valid /\ bodyRead.message # ""
              THEN [form |-> "decoded", text |-> bodyRead.message]
              ELSE [form |-> "fallback", text |-> bodyRead.raw]

C10_Witness ==
  /\ InterpretedByCheckResponse /\ svc = "EnvironmentGet" /\ resp.status = 404
  /\ ~bodyRead.readOK
  /\ result.message.form = "readfail"

----------------------------------------------------------------------------
(* The library outside a request: error classifiers, NewClient, buildURL *)

\* The request operations are at rest; the client is a fixed valid one.
RequestIdle ==
  /\ apiKey = "k1" /\ token = "" /\ username = ""
  /\ maxRetries = 0 /\ dryRun = FALSE
  /\ pc = "idle" /\ svc = "none" /\ entry = "none"
  /\ req = NoReq /\ attempt = 0 /\ outcomes = <<>>
  /\ firstSent = <<>> /\ lastSent = <<>>
  /\ resp = NoResp /\ bodyRead = NoBody /\ result = NoResult
  /\ open = 0 /\ stream = FALSE

\* Error values a caller can hold: nil, an APIError of any non-2xx status,
\* the same wrapped by a service, and the other errors of the package.
ErrorValues ==
  LET api == {APIError(st, f, "m") : st \in {x \in Statuses : x >= 300},
                                     f \in {"decoded", "fallback"}}
      other == {TransportFailure("timeout"), DecodeFailure(200),
                PlainError(404, "failed to get logs")}
  IN {NilErr} \cup api \cup other
       \cup {Wrap(e, "failed to get environment") : e \in api \cup other}

Classify ==
  /\ fnCall = NoCall
  /\ \E e \in ErrorValues :
       fnCall' = [fn |-> "classify", in |-> e,
                  out |-> [notFound |-> IsNotFoundError(e),
                           unauthorized |-> IsUnauthorizedError(e),
                           forbidden |-> IsForbiddenError(e)]]
  /\ UNCHANGED <<token, apiKey, username, maxRetries, dryRun, requestVars,
                 Profiles, CurrentProfile, cfgCall, sideVars>>

defaultMaxRetries == 3

NilProfile == [nil |-> TRUE]
NilClient == [nil |-> TRUE]

NewClientURLs ==
  { <<>>, HTTP, HTTPS, HTTP \o <<"h">>, HTTPS \o <<"h">>,
    HTTPS \o <<"h", "/">>, HTTPS \o <<"h", "/", "/">>,
    <<"h">>, <<"h", "t", "t", "p", ":", "/">> }

NewClientProfiles ==
  {NilProfile} \cup
  [nil : {FALSE}, URL : NewClientURLs, APIKey : ApiKeys, Username : Usernames,
   Token : Tokens]

HasScheme(u) == HasPrefix(u, HTTP) \/ HasPrefix(u, HTTPS)

\* NewClient without options.
NewClient(p) ==
  IF p.nil THEN [err |-> "profile cannot be nil", client |-> NilClient]
  ELSE IF ~Validate(p) THEN [err |-> "invalid profile", client |-> NilClient]
  ELSE LET baseURL == TrimSuffix(p.URL, <<"/">>) IN
       IF ~HasScheme(baseURL)
       THEN [err |-> "invalid URL: must start with http:// or https://",
             client |-> NilClient]
       ELSE [err |-> "",
             client |-> [nil |-> FALSE, baseURL |-> baseURL, apiKey |-> p.APIKey,
                         token |-> p.Token, username |-> p.Username,
                         maxRetries |-> defaultMaxRetries]]

NewClientCall ==
  /\ fnCall = NoCall
  /\ \E p \in NewClientProfiles :
       fnCall' = [fn |-> "NewClient", in |-> p, out |-> NewClient(p)]
  /\ UNCHANGED <<token, apiKey, username, maxRetries, dryRun, requestVars,
                 Profiles, CurrentProfile, cfgCall, sideVars>>

MaxPathLen == 3

RECURSIVE Strings(_, _)
Strings(alphabet, n) ==
  IF n = 0 THEN {<<>>}
  ELSE LET shorter == Strings(alphabet, n - 1)
       IN shorter \cup {Append(w, c) : w \in shorter, c \in alphabet}

Paths == Strings({"/", "a"}, MaxPathLen)

API == <<"/", "a", "p", "i", "/">>

buildURL_NoTrim(baseURL, path) == baseURL \o API \o path

\* Client.buildURL
buildURL(baseURL, path) == baseURL \o API \o TrimPrefix(path, <<"/">>)

BuildURLCall ==
  /\ fnCall = NoCall
  /\ \E p \in NewClientProfiles, path \in Paths :
       /\ NewClient(p).err = ""
       /\ LET base == NewClient(p).client.baseURL IN
          fnCall' = [fn |-> "buildURL", in |-> [baseURL |-> base, path |-> path],
                     out |-> [url |-> buildURL(base, path),
                              slashed |-> buildURL(base, <<"/">> \o path)]]
  /\ UNCHANGED <<token, apiKey, username, maxRetries, dryRun, requestVars,
                 Profiles, CurrentProfile, cfgCall, sideVars>>

----------------------------------------------------------------------------
(* Credential resolution: initConfig, then config.GetProfileFromViper *)

ProfileNames == {"p"}

\* Profiles as the configuration file can hold them; `config set` stores one
\* key at a time, so any field may be empty.
StoredProfiles ==
  [URL : {<<>>, HTTPS \o <<"p">>}, APIKey : {"", "kp"}, Username : {"", "up"},
   Token : {"", "tp"}]

ConfigFiles ==
  [current_profile : {""} \cup ProfileNames,
   profiles : UNION {[D -> StoredProfiles] : D \in SUBSET ProfileNames}]

\* --url, --api-key, --profile; the empty value is a flag not given.
Flags ==
  [url : {<<>>, HTTPS \o <<"f">>}, api_key : {"", "kf"},
   profile : {"", "q"} \cup ProfileNames]

\* PORTAINER_URL, PORTAINER_API_KEY, PORTAINER_USERNAME, PORTAINER_TOKEN,
\* PORTAINER_CURRENT_PROFILE; an empty variable counts as unset.
Environs ==
  [url : {<<>>, HTTPS \o <<"e">>}, api_key : {"", "ke"}, username : {"", "ue"},
   token : {"", "te"}, current_profile : {""} \cup ProfileNames]

NoProfile == [URL |-> <<>>, APIKey |-> "", Username |-> "", Token |-> ""]

\* viper.Get of one key: a value given to viper.Set, then a bound flag that
\* was given, then the environment variable, then the configuration file.
ViperGet(override, flag, envv, filev, empty) ==
  IF override.set THEN override.val
  ELSE IF flag # empty THEN flag
  ELSE IF envv # empty THEN envv
  ELSE filev

\* initConfig: the values it gives to viper.Set.  --profile sets
\* current_profile; when the current profile is in the file and --url
\* (--api-key) was not given, url (api_key) is set to the profile's value.
initConfig(flags, env, file) ==
  LET curOv == [set |-> flags.profile # "", val |-> flags.profile]
      cur == ViperGet(curOv, "", env.current_profile, file.current_profile, "")
      has == cur # "" /\ cur \in DOMAIN file.profiles
  IN [current_profile |-> curOv,
      url |-> [set |-> has /\ flags.url = <<>>,
               val |-> IF has THEN file.profiles[cur].URL ELSE <<>>],
      api_key |-> [set |-> has /\ flags.api_key = "",
                   val |-> IF has THEN file.profiles[cur].APIKey ELSE ""]]

\* Config.GetProfile(name) for a non-empty name.
GetProfile(file, name) ==
  IF name \notin DOMAIN file.profiles
  THEN [err |-> "profile not found", profile |-> NoProfile]
  ELSE [err |-> "", profile |-> file.profiles[name]]

\* config.GetCurrentProfile
GetCurrentProfile(ov, env, file) ==
  LET viperName == ViperGet(ov.current_profile, "", env.current_profile,
                            file.current_profile, "")
      profileName == IF viperName = "" THEN file.current_profile ELSE viperName
  IN IF profileName = ""
     THEN [err |-> "no current profile set", profile |-> NoProfile]
     ELSE GetProfile(file, profileName)

Unset == [set |-> FALSE, val |-> ""]

\* config.GetProfileFromViper: with no url in viper the stored current
\* profile is returned as it is; otherwise a profile is built from viper's
\* url, api_key, username and token and validated.
GetProfileFromViper(ov, flags, env, file) ==
  LET url == ViperGet(ov.url, flags.url, env.url, <<>>, <<>>)
      built == [URL |-> url,
                APIKey |-> ViperGet(ov.api_key, flags.api_key, env.api_key, "", ""),
                Username |-> ViperGet(Unset, "", env.username, "", ""),
                Token |-> ViperGet(Unset, "", env.token, "", "")]
      cur == GetCurrentProfile(ov, env, file)
  IN IF url = <<>>
     THEN IF cur.err # ""
          THEN [err |-> "no URL specified and failed to get current profile",
                profile |-> NoProfile]
          ELSE cur
     ELSE IF ~Validate(built)
          THEN [err |-> "invalid profile", profile |-> NoProfile]
          ELSE [err |-> "", profile |-> built]

\* A command resolves its identity: initConfig, then GetProfileFromViper.
Resolve ==
  /\ fnCall = NoCall
  /\ \E flags \in Flags, env \in Environs, file \in ConfigFiles :
       fnCall' = [fn |-> "resolve",
                  in |-> [flags |-> flags, env |-> env, file |-> file],
                  out |-> GetProfileFromViper(initConfig(flags, env, file),
                                              flags, env, file)]
  /\ UNCHANGED <<token, apiKey, username, maxRetries, dryRun, requestVars,
                 Profiles, CurrentProfile, cfgCall, sideVars>>

\* The caller has used the value the function returned.
LibReturn ==
  /\ fnCall # NoCall
  /\ fnCall' = NoCall
  /\ UNCHANGED <<token, apiKey, username, maxRetries, dryRun, requestVars,
                 Profiles, CurrentProfile, cfgCall, sideVars>>

LibInit == RequestIdle /\ LibraryIdle

LibNext == Classify \/ NewClientCall \/ BuildURLCall \/ Resolve \/ LibReturn

LibSpec == LibInit /\ [][LibNext]_vars

----------------------------------------------------------------------------
(* Config: the profile table *)

ConfigNames == {"", "a", "b"}

\* Profiles a caller passes to SetProfile.
ConfigProfiles ==
  [Name : {""}, URL : {HTTPS \o <<"p">>, HTTPS \o <<"q">>}, APIKey : {"kp"},
   Username : {""}, Token : {""}]

\* Config values in which CurrentProfile is empty or names a profile.
Configs ==
  UNION {[Profiles : [D -> {[pr EXCEPT !.Name = "a"] : pr \in ConfigProfiles}],
          CurrentProfile : {""} \cup D] : D \in SUBSET {"a"}}

\* c.Profiles[name] = profile
Put(profiles, name, profile) ==
  [n \in DOMAIN profiles \cup {name} |-> IF n = name THEN profile ELSE profiles[n]]

\* delete(c.Profiles, name)
Remove(profiles, name) ==
  [n \in DOMAIN profiles \ {name} |-> profiles[n]]

\* Config.SetProfile
SetProfile(c, name, profile) ==
  [err |-> "",
   cfg |-> [c EXCEPT !.Profiles = Put(@, name, [profile EXCEPT !.Name = name])]]

DeleteProfile_KeepCurrent(c, name) ==
  IF name \notin DOMAIN c.Profiles
  THEN [err |-> "profile not found", cfg |-> c]
  ELSE [err |-> "", cfg |-> [c EXCEPT !.Profiles = Remove(@, name)]]

\* Config.DeleteProfile
DeleteProfile(c, name) ==
  IF name \notin DOMAIN c.Profiles
  THEN [err |-> "profile not found", cfg |-> c]
  ELSE [err |-> "",
        cfg |-> [Profiles |-> Remove(c.Profiles, name),
                 CurrentProfile |-> IF c.CurrentProfile = name THEN ""
                                    ELSE c.CurrentProfile]]

SetCurrentProfile_Unchecked(c, name) ==
  [err |-> "", cfg |-> [c EXCEPT !.CurrentProfile = name]]

\* Config.SetCurrentProfile
SetCurrentProfile(c, name) ==
  IF name \notin DOMAIN c.Profiles
  THEN [err |-> "profile not found", cfg |-> c]
  ELSE [err |-> "", cfg |-> [c EXCEPT !.CurrentProfile = name]]

Config == [Profiles |-> Profiles, CurrentProfile |-> CurrentProfile]

\* A Config method was called with name and returned r.
ConfigCall(op, name, r) ==
  /\ Profiles' = r.cfg.Profiles
  /\ CurrentProfile' = r.cfg.CurrentProfile
  /\ cfgCall' = [op |-> op, name |-> name, err |-> r.err, before |-> Config]
  /\ UNCHANGED <<token, apiKey, username, maxRetries, dryRun, requestVars, fnCall,
                 sideVars>>

SetProfileCall ==
  \E name \in ConfigNames, profile \in ConfigProfiles :
    ConfigCall("SetProfile", name, SetProfile(Config, name, profile))

DeleteProfileCall ==
  \E name \in ConfigNames :
    ConfigCall("DeleteProfile", name, DeleteProfile(Config, name))

SetCurrentProfileCall ==
  \E name \in ConfigNames :
    ConfigCall("SetCurrentProfile", name, SetCurrentProfile(Config, name))

ConfigInit ==
  /\ RequestIdle
  /\ SideIdle
  /\ fnCall = NoCall
  /\ cfgCall = NoCfgCall
  /\ \E c \in Configs : Profiles = c.Profiles /\ CurrentProfile = c.CurrentProfile

ConfigNext == SetProfileCall \/ DeleteProfileCall \/ SetCurrentProfileCall

ConfigSpec == ConfigInit /\ [][ConfigNext]_vars

----------------------------------------------------------------------------
(* Properties of the library and the configuration *)

\* C11: IsNotFoundError is true exactly for an APIError with status 404,
\* IsUnauthorizedError exactly for 401, IsForbiddenError exactly for 403; for
\* every other status and every error that is not an APIError all three are
\* false, so at most one of them is true.
C11_ClassifiersExact ==
  fnCall.fn = "classify" =>
    LET e == fnCall.in
        o == fnCall.out
        isAPI == e.kind = "APIError" /\ e.wrap = ""
    IN /\ o.notFound = (isAPI /\ e.status = 404)
       /\ o.unauthorized = (isAPI /\ e.status = 401)
       /\ o.forbidden = (isAPI /\ e.status = 403)
       /\ ~(o.notFound /\ o.unauthorized)
       /\ ~(o.notFound /\ o.forbidden)
       /\ ~(o.unauthorized /\ o.forbidden)

C11_Witness ==
  /\ fnCall.fn = "classify"
  /\ fnCall.in.kind = "APIError" /\ fnCall.in.status = 401
  /\ fnCall.out = [notFound |-> FALSE, unauthorized |-> TRUE, forbidden |-> FALSE]

\* What the claim C15 lists as the rejected profiles.
C15_Rejected(p) ==
  \/ p.nil
  \/ p.URL = <<>>
  \/ (p.APIKey = "" /\ p.Username = "" /\ p.Token = "")
  \/ ~HasScheme(p.URL)

\* C15 (as stated): NewClient returns an error and no client when the profile
\* is nil, has an empty URL, has no credential, or has a URL that does not
\* start with http:// or https://, and a client in every other case.
C15_Original ==
  fnCall.fn = "NewClient" =>
    IF C15_Rejected(fnCall.in)
    THEN fnCall.out.err # "" /\ fnCall.out.client = NilClient
    ELSE fnCall.out.err = "" /\ fnCall.out.client # NilClient

\* C15 (amended): NewClient returns an error and no client when the profile is
\* nil, has an empty URL, has no credential, or has a URL that, after one
\* trailing slash is removed, does not start with http:// or https://; in
\* every other case it returns a client.  The client's base address starts
\* with the scheme and one of its credentials is non-empty.
C15_NewClientAccepts ==
  fnCall.fn = "NewClient" =>
    LET p == fnCall.in
        c == fnCall.out.client
        rejected == \/ p.nil
                    \/ p.URL = <<>>
                    \/ (p.APIKey = "" /\ p.Username = "" /\ p.Token = "")
                    \/ ~HasScheme(TrimSuffix(p.URL, <<"/">>))
    IN IF rejected
       THEN fnCall.out.err # "" /\ c = NilClient
       ELSE /\ fnCall.out.err = "" /\ c # NilClient
            /\ HasScheme(c.baseURL)
            /\ ~(c.apiKey = "" /\ c.username = "" /\ c.token = "")

C15_Witness ==
  /\ fnCall.fn = "NewClient"
  /\ ~fnCall.in.nil /\ fnCall.in.URL = HTTPS \o <<"h", "/">>
  /\ fnCall.in.APIKey = "" /\ fnCall.in.Token = "t1"
  /\ fnCall.out.err = ""
  /\ fnCall.out.client.baseURL = HTTPS \o <<"h">>

\* Whether url has two slashes in a row where baseURL meets "/api/" or where
\* "/api/" meets the path.
DoubleSlashAtJoin(url, baseURL) ==
  LET n == Len(baseURL) IN
  \/ url[n] = "/"
  \/ (Len(url) > n + Len(API) /\ url[n + Len(API) + 1] = "/")

\* C16 (as stated): for every relative path p, buildURL(p) is the base, then
\* "/api/", then p without its leading slash, so buildURL(p) = buildURL("/" + p)
\* and there is no double slash at the join.
C16_Original ==
  fnCall.fn = "buildURL" =>
    /\ fnCall.out.url =
         fnCall.in.baseURL \o API \o TrimPrefix(fnCall.in.path, <<"/">>)
    /\ fnCall.out.url = fnCall.out.slashed
    /\ ~DoubleSlashAtJoin(fnCall.out.url, fnCall.in.baseURL)

\* C16 (amended): for every path p that does not begin with a slash,
\* buildURL(p) = buildURL("/" + p) = base + "/api/" + p, and when the base
\* does not end with a slash there is no double slash at the join; of a path
\* that begins with slashes exactly one is removed.
C16_BuildURLJoins ==
  fnCall.fn = "buildURL" =>
    LET base == fnCall.in.baseURL
        path == fnCall.in.path
        url == fnCall.out.url
    IN /\ ~HasPrefix(path, <<"/">>) =>
            /\ url = base \o API \o path
            /\ url = fnCall.out.slashed
            /\ ~HasSuffix(base, <<"/">>) => ~DoubleSlashAtJoin(url, base)
       /\ HasPrefix(path, <<"/">>) =>
            url = base \o API \o SubSeq(path, 2, Len(path))

C16_Witness ==
  /\ fnCall.fn = "buildURL"
  /\ fnCall.in.baseURL = HTTPS \o <<"h">>
  /\ fnCall.in.path = <<"a", "/", "a">>
  /\ fnCall.out.slashed = HTTPS \o <<"h">> \o API \o <<"a", "/", "a">>
  /\ fnCall.out.url = fnCall.out.slashed

\* C12: when the server answers EnvironmentService.Get with 404, 401 or 403,
\* the error the service returns is classified true by IsNotFoundError,
\* IsUnauthorizedError or IsForbiddenError respectively.
C12_ServiceErrorClassified ==
  (pc = "done" /\ svc = "EnvironmentGet" /\ resp.present) =>
    /\ resp.status = 404 => IsNotFoundError(result)
    /\ resp.status = 401 => IsUnauthorizedError(result)
    /\ resp.status = 403 => IsForbiddenError(result)

\* The operations that pass a decode target to DoRequest.
HasTarget == svc \in {"EnvironmentGet", "AuthLogin"}

\* C13: a 2xx response whose body cannot be decoded into the target yields an
\* error that is not an APIError (all three classifiers false) and the
\* failed response is the last attempt made; with status 204 or without a
\* target the body is not decoded and DoRequest succeeds.
C13_DecodeFailureNotAPIError ==
  (pc = "done" /\ entry = "DoRequest" /\ resp.present
     /\ resp.status >= 200 /\ resp.status < 300) =>
    IF HasTarget /\ resp.status # 204
    THEN ~(bodyRead.readOK /\ bodyRead.decodes) =>
           /\ result.kind = "DecodeFailure"
           /\ ~IsNotFoundError(result)
           /\ ~IsUnauthorizedError(result)
           /\ ~IsForbiddenError(result)
           /\ Attempts = attempt + 1
           /\ LastOutcome = [err |-> "none", status |-> resp.status]
    ELSE /\ bodyRead = NoBody
         /\ IF svc = "AuthLogin"
            THEN result = PlainError(0, "no token returned from server")
            ELSE result = Success(resp.status)

C13_Witness ==
  /\ pc = "done" /\ svc = "EnvironmentGet" /\ resp.present /\ resp.status = 200
  /\ bodyRead.readOK /\ ~bodyRead.decodes
  /\ result.kind = "DecodeFailure" /\ result.wrap = "failed to get environment"
  /\ Attempts = 2

\* C14: ContainerService.Logs ends in exactly one of two ways: the open
\* stream and a nil error, only when the status is 200, or an error, no
\* stream and no response body left open.
C14_LogsTwoExits ==
  (pc = "done" /\ svc = "ContainerLogs") =>
    \/ /\ result.kind = "stream"
       /\ resp.present /\ resp.status = 200
       /\ stream /\ open = 1
    \/ /\ result.kind \in {"TransportFailure", "error"}
       /\ ~stream /\ open = 0

\* The profile the command selected: --profile, else
\* PORTAINER_CURRENT_PROFILE, else the file's current_profile; the empty
\* profile when there is none of that name.
Selected(in) ==
  LET name == IF in.flags.profile # "" THEN in.flags.profile
              ELSE IF in.env.current_profile # "" THEN in.env.current_profile
              ELSE in.file.current_profile
  IN IF name \in DOMAIN in.file.profiles THEN in.file.profiles[name] ELSE NoProfile

\* Flag, else environment, else stored value.
Prefer(flag, envv, stored, empty) ==
  IF flag # empty THEN flag ELSE IF envv # empty THEN envv ELSE stored

Preferred(in) ==
  [URL |-> Prefer(in.flags.url, in.env.url, Selected(in).URL, <<>>),
   APIKey |-> Prefer(in.flags.api_key, in.env.api_key, Selected(in).APIKey, ""),
   Username |-> Prefer("", in.env.username, Selected(in).Username, ""),
   Token |-> Prefer("", in.env.token, Selected(in).Token, "")]

\* C17: for each of url, api key, username and token the resolver yields the
\* flag value when a flag is given, otherwise the PORTAINER_* environment
\* value when set, otherwise the value stored in the selected profile.
C17_FlagEnvProfilePrecedence ==
  fnCall.fn = "resolve" =>
    /\ fnCall.out.err = "" => fnCall.out.profile = Preferred(fnCall.in)
    /\ Validate(Preferred(fnCall.in)) => fnCall.out.err = ""

\* C18: GetProfileFromViper returns a configuration error or a profile that
\* satisfies Profile.Validate, and fails with an error when no URL is
\* resolved and no current profile is set.
C18_ErrorOrValidProfile ==
  fnCall.fn = "resolve" =>
    /\ fnCall.out.err # "" \/ Validate(fnCall.out.profile)
    /\ (/\ fnCall.in.flags.url = <<>> /\ fnCall.in.env.url = <<>>
        /\ fnCall.in.flags.profile = "" /\ fnCall.in.env.current_profile = ""
        /\ fnCall.in.file.current_profile = "") => fnCall.out.err # ""

\* C19: CurrentProfile is always empty or a key of Profiles; deleting the
\* current profile clears it; SetCurrentProfile succeeds only for a profile
\* that exists.
C19_CurrentProfileExists ==
  /\ CurrentProfile = "" \/ CurrentProfile \in DOMAIN Profiles
  /\ (/\ cfgCall.op = "DeleteProfile" /\ cfgCall.err = ""
      /\ cfgCall.name = cfgCall.before.CurrentProfile) => CurrentProfile = ""
  /\ cfgCall.op = "SetCurrentProfile" =>
       /\ cfgCall.err = "" <=> cfgCall.name \in DOMAIN cfgCall.before.Profiles
       /\ cfgCall.err = "" => CurrentProfile = cfgCall.name

C19_Witness ==
  /\ cfgCall.op = "DeleteProfile" /\ cfgCall.err = "" /\ cfgCall.name = "b"
  /\ cfgCall.before.CurrentProfile = "b"
  /\ CurrentProfile = ""
  /\ DOMAIN Profiles = {"a"}

\* C20: DeleteProfile and SetCurrentProfile with a name that is not in
\* Profiles return an error and leave Profiles and CurrentProfile unchanged;
\* DeleteProfile of an existing profile that is not the current one removes
\* only that profile and leaves CurrentProfile unchanged.
C20_MissingNameChangesNothing ==
  LET b == cfgCall.before IN
  /\ (/\ cfgCall.op \in {"DeleteProfile", "SetCurrentProfile"}
      /\ cfgCall.name \notin DOMAIN b.Profiles) =>
       /\ cfgCall.err # ""
       /\ Profiles = b.Profiles
       /\ CurrentProfile = b.CurrentProfile
  /\ (/\ cfgCall.op = "DeleteProfile"
      /\ cfgCall.name \in DOMAIN b.Profiles
      /\ cfgCall.name # b.CurrentProfile) =>
       /\ cfgCall.err = ""
       /\ DOMAIN Profiles = DOMAIN b.Profiles \ {cfgCall.name}
       /\ \A n \in DOMAIN Profiles : Profiles[n] = b.Profiles[n]
       /\ CurrentProfile = b.CurrentProfile

C20_Witness ==
  /\ cfgCall.op = "DeleteProfile" /\ cfgCall.name = "a" /\ cfgCall.err = ""
  /\ cfgCall.before.CurrentProfile = "b"
  /\ DOMAIN cfgCall.before.Profiles = {"a", "b"}
  /\ DOMAIN Profiles = {"b"} /\ CurrentProfile = "b"

----------------------------------------------------------------------------
(* Properties of login, logout and the client's fields *)

\* The results that are a non-nil error.
ErrorKinds == {"APIError", "TransportFailure", "DecodeFailure", "error"}

\* The step in which operation s returns to its caller.
Returns(s) == svc' = s /\ pc # "done" /\ pc' = "done"

\* C21: Login with an empty username or password returns an error without
\* sending a request; on a 2xx response carrying a non-empty JWT it succeeds
\* and the client's token is that JWT afterwards; on a 401 ("invalid
\* credentials"), on any other error and on a 2xx response with an empty JWT
\* it returns an error and the token is unchanged.
C21_LoginSetsTokenOnSuccessOnly ==
  [][Returns("AuthLogin") =>
       /\ entry' = "none" =>
            /\ result' = PlainError(0, "username and password are required")
            /\ outcomes' = <<>> /\ req' = NoReq
            /\ token' = token
       /\ (entry' = "DoRequest" /\ resp.present) =>
            IF /\ resp.status >= 200 /\ resp.status < 300
               /\ bodyRead'.readOK /\ bodyRead'.decodes /\ bodyRead'.jwt # ""
            THEN result'.kind = "success" /\ token' = bodyRead'.jwt
            ELSE /\ result'.kind \in ErrorKinds
                 /\ token' = token
                 /\ resp.status = 401 => result' = PlainError(0, "invalid credentials")
       /\ (entry' = "DoRequest" /\ resp.err # "none") =>
            result'.kind \in ErrorKinds /\ token' = token
       /\ result'.kind # "success" => token' = token
    ]_vars

C21_Witness ==
  /\ pc = "done" /\ svc = "AuthLogin" /\ result.kind = "success"
  /\ req.Authorization = <<"Bearer ", "t1">>
  /\ bodyRead.jwt = "j1" /\ token = "j1"

\* C22: when Logout has returned nil the client's token is empty, and a
\* request then built by a client without an api key has no Authorization
\* header.
C22_LogoutClearsToken ==
  (pc = "done" /\ svc = "AuthLogout" /\ result.kind = "success") =>
    /\ token = ""
    /\ apiKey = "" =>
         LET later == newRequest("GET", "endpoints/1", FALSE, <<>>)
         IN later.Authorization = <<>> /\ later.XAPIKey = ""

C22_Witness ==
  /\ pc = "done" /\ svc = "AuthLogout" /\ result.kind = "success"
  /\ apiKey = "" /\ req.Authorization = <<"Bearer ", "t1">>
  /\ token = ""

\* C26: no step of a request operation changes the client's api key,
\* username or retry bound; the token changes only in Client.SetToken, called
\* by the user between operations or by Login and Logout when they succeed,
\* and that step changes no other field.
C26_OnlySetTokenWrites ==
  [][/\ apiKey' = apiKey /\ username' = username /\ maxRetries' = maxRetries
     /\ token' # token =>
          \/ pc = "idle" /\ pc' = "idle"
          \/ /\ svc \in {"AuthLogin", "AuthLogout"}
             /\ pc = "ret" /\ result'.kind = "success"
     /\ (pc = "idle" /\ pc' = "idle") => UNCHANGED requestVars
    ]_vars

C26_Witness ==
  /\ pc = "done" /\ svc = "StackUpdate" /\ maxRetries = 2 /\ Attempts = 3
  /\ result.kind = "APIError" /\ result.status = 503
  /\ apiKey = "k1" /\ token = "j1"

\* C27: for every retry bound do makes at least one HTTP attempt and returns
\* exactly one of a response and an error, so no caller dereferences a nil
\* response.
C27_DoReturnsResponseOrError ==
  (pc \in {"ret", "done"} /\ entry \in {"DoRequest", "do"}) =>
    /\ Attempts >= 1
    /\ resp.present # (resp.err # "none")
    /\ result.kind # "panic"

\* An attempt that failed with an error that is no timeout, not temporary,
\* and whose text has none of the retryable phrases.
NotRetryable(o) ==
  /\ o.err # "none"
  /\ LET u == TransportErrors[o.err] IN
     /\ ~u.isTimeout /\ ~u.isTemporary
     /\ ~Contains(u.text, "connection refused")
     /\ ~Contains(u.text, "connection reset")
     /\ ~Contains(u.text, "timeout")

\* C28: a transport failure that is not retryable is the last attempt of its
\* operation, whatever budget remains and whatever came before, and the
\* operation ends with a Transport Failure.
C28_NonRetryableEndsOperation ==
  \A i \in 1..Len(outcomes) :
    NotRetryable(outcomes[i]) =>
      /\ i = Len(outcomes)
      /\ pc \in {"ret", "done"}
      /\ resp = [present |-> FALSE, status |-> 0, err |-> outcomes[i].err]
      /\ pc = "done" => result.kind = "TransportFailure"

C28_Witness ==
  /\ pc = "done" /\ svc = "StackUpdate" /\ maxRetries = 2
  /\ outcomes = << [status |-> 503, err |-> "none"], [status |-> 0, err |-> "tls"] >>
  /\ result.kind = "TransportFailure"

\* C29: the body of a retried 5xx response is closed before the next
\* attempt, and when an operation has returned every response body it
\* obtained is closed, except the stream a successful Logs call returns.
C29_ResponseBodiesClosed ==
  /\ pc = "do" => open = 0
  /\ pc = "ret" => open = (IF resp.present THEN 1 ELSE 0)
  /\ pc = "done" => open = (IF stream THEN 1 ELSE 0)
  /\ stream => /\ svc = "ContainerLogs" /\ result.kind = "stream"
               /\ resp.present /\ resp.status = 200

C29_Witness ==
  /\ pc = "done" /\ svc = "StackDeploy" /\ maxRetries = 2 /\ Attempts = 3
  /\ EveryOutcome(Is5xx) /\ resp.present
  /\ open = 0 /\ ~stream

\* C30: Logout clears the token and returns nil whatever status do returns;
\* it returns an error, and leaves the token as it was, exactly when do
\* returns a transport failure.
C30_LogoutIgnoresStatus ==
  [][Returns("AuthLogout") =>
       /\ resp.present => result' = Success(resp.status) /\ token' = ""
       /\ result'.kind \in ErrorKinds <=> resp.err # "none"
       /\ resp.err # "none" =>
            result'.kind = "TransportFailure" /\ token' = token
    ]_vars

C30_Witness ==
  /\ pc = "done" /\ svc = "AuthLogout" /\ maxRetries = 2 /\ Attempts = 3
  /\ resp.present /\ resp.status = 503
  /\ req.Authorization = <<"Bearer ", "t1">>
  /\ result.kind = "success" /\ token = ""

----------------------------------------------------------------------------
(* Verbose mode: one operation run twice, with Client.verbose on and off *)

doStep_VerboseGivesUp(verbose, run, o, all) ==
  LET att == run.attempt
      r1 == resetBody(run.req, att)
      offered == Remaining(r1.Body)
      k == IF all /\ o.err # "refused" THEN Len(offered) ELSE 0
      d == IF verbose /\ doDecision(att, o) = "continue" /\ o.err = "none"
           THEN "break" ELSE doDecision(att, o)
      lines == (IF verbose /\ att > 0 THEN <<"Retry attempt">> ELSE <<>>)
                 \o (IF verbose THEN <<r1.method>> ELSE <<>>)
  IN [run EXCEPT
        !.req = [r1 EXCEPT !.Body.pos = @ + k],
        !.sent = Append(@, offered),
        !.slept = IF att > 0 THEN @ + 1 ELSE @,
        !.printed = @ \o lines,
        !.attempt = IF d = "continue" THEN att + 1 ELSE att,
        !.pc = IF d = "continue" THEN "do" ELSE "ret",
        !.resp = IF d = "continue" THEN NoResp
                 ELSE IF d = "error"
                      THEN [present |-> FALSE, status |-> 0, err |-> o.err]
                      ELSE [present |-> TRUE, status |-> o.status, err |-> "none"]]

\* One iteration of the loop of do in a run: on a retry the line "Retry
\* attempt" is printed when verbose, the delay is slept and the body reset;
\* the method and URL are printed when verbose; then http.Client.Do yields o,
\* the transport having read all or none of the body.
doStep(verbose, run, o, all) ==
  LET att == run.attempt
      r1 == resetBody(run.req, att)
      offered == Remaining(r1.Body)
      k == IF all /\ o.err # "refused" THEN Len(offered) ELSE 0
      d == doDecision(att, o)
      lines == (IF verbose /\ att > 0 THEN <<"Retry attempt">> ELSE <<>>)
                 \o (IF verbose THEN <<r1.method>> ELSE <<>>)
  IN [run EXCEPT
        !.req = [r1 EXCEPT !.Body.pos = @ + k],
        !.sent = Append(@, offered),
        !.slept = IF att > 0 THEN @ + 1 ELSE @,
        !.printed = @ \o lines,
        !.attempt = IF d = "continue" THEN att + 1 ELSE att,
        !.pc = IF d = "continue" THEN "do" ELSE "ret",
        !.resp = IF d = "continue" THEN NoResp
                 ELSE IF d = "error"
                      THEN [present |-> FALSE, status |-> 0, err |-> o.err]
                      ELSE [present |-> TRUE, status |-> o.status, err |-> "none"]]

\* The end of do and the rest of DoRequest in a run: the response line is
\* printed when verbose and a response is there, then the result is made.
doEnd(verbose, run, b, hasTarget) ==
  [run EXCEPT
     !.printed = IF verbose /\ run.resp.present THEN Append(@, "Response") ELSE @,
     !.result = DoRequestResult(run.resp, b, hasTarget),
     !.pc = "done"]

allButRuns == <<token, apiKey, username, maxRetries, dryRun, requestVars, fnCall,
                Profiles, CurrentProfile, cfgCall, disk, watch>>

\* Both runs enter DoRequest with the same request.
VerboseBegin ==
  /\ \A v \in BOOLEAN : runs[v].pc = "idle"
  /\ \E r \in {newRequest("GET", "endpoints/1", FALSE, <<>>)}
               \cup {newRequest("PUT", "stacks/1", TRUE, p) : p \in Payloads} :
       runs' = [v \in BOOLEAN |->
                  [runs[v] EXCEPT !.req = r,
                                  !.pc = IF 0 <= maxRetries THEN "do" ELSE "ret"]]
  /\ UNCHANGED allButRuns

\* The server or the transport yields one outcome; every run that is inside
\* the loop observes it.
VerboseAttempt ==
  /\ \E v \in BOOLEAN : runs[v].pc = "do"
  /\ \E o \in Outcomes, all \in BOOLEAN :
       runs' = [v \in BOOLEAN |->
                  IF runs[v].pc = "do" THEN doStep(v, runs[v], o, all) ELSE runs[v]]
  /\ UNCHANGED allButRuns

\* The response body is the same for every run that has left the loop.
VerboseReturn ==
  /\ \E v \in BOOLEAN : runs[v].pc = "ret"
  /\ \A v \in BOOLEAN : runs[v].pc # "do"
  /\ \E b \in RespBodies, hasTarget \in BOOLEAN :
       runs' = [v \in BOOLEAN |->
                  IF runs[v].pc = "ret" THEN doEnd(v, runs[v], b, hasTarget)
                  ELSE runs[v]]
  /\ UNCHANGED allButRuns

VerboseInit ==
  /\ apiKey = "k1" /\ token = "" /\ username = ""
  /\ maxRetries \in -1..MaxRetries
  /\ dryRun = FALSE
  /\ pc = "idle" /\ svc = "none" /\ entry = "none"
  /\ req = NoReq /\ attempt = 0 /\ outcomes = <<>>
  /\ firstSent = <<>> /\ lastSent = <<>>
  /\ resp = NoResp /\ bodyRead = NoBody /\ result = NoResult
  /\ open = 0 /\ stream = FALSE
  /\ LibraryIdle

VerboseNext == VerboseBegin \/ VerboseAttempt \/ VerboseReturn

VerboseSpec == VerboseInit /\ [][VerboseNext]_vars

\* C25: two runs of one operation that differ only in the verbose flag and
\* observe the same outcomes make the same number of attempts, sleep the
\* same delays, send the same requests and return the same result; they
\* differ in what they print only.
C25_VerboseSameControlFlow ==
  [runs[TRUE] EXCEPT !.printed = <<>>] = [runs[FALSE] EXCEPT !.printed = <<>>]

C25_Witness ==
  /\ runs[TRUE].pc = "done" /\ runs[TRUE].attempt = 2 /\ runs[TRUE].slept = 2
  /\ runs[TRUE].result.kind = "APIError" /\ runs[TRUE].result.status = 503
  /\ Len(runs[TRUE].printed) = 6
  /\ runs[FALSE].printed = <<>>
  /\ runs[FALSE].result = runs[TRUE].result

----------------------------------------------------------------------------
(* watch.Watch *)

MaxWatchCalls == 5

\* Watch calls fn: the screen is cleared first when opts.Clear is set.
callFn(w) ==
  [w EXCEPT !.pc = "fn", !.calls = @ + 1, !.running = @ + 1,
            !.cleared = IF w.clear THEN @ + 1 ELSE @,
            !.late = @ \/ w.cancelled]

afterFn_IgnoreError(w, failed) ==
  [w EXCEPT !.running = @ - 1,
            !.errs = IF failed THEN @ + 1 ELSE @,
            !.pc = "select"]

\* fn has returned: Watch returns its error, or waits in the select.
afterFn(w, failed) ==
  [w EXCEPT !.running = @ - 1,
            !.errs = IF failed THEN @ + 1 ELSE @,
            !.pc = IF failed THEN "returned" ELSE "select",
            !.ret = IF failed THEN "err" ELSE @]

allButWatch == <<token, apiKey, username, maxRetries, dryRun, requestVars, fnCall,
                 Profiles, CurrentProfile, cfgCall, runs, disk>>

\* Watch is called and executes fn immediately.
WatchStart ==
  /\ watch.pc = "idle"
  /\ \E clear \in BOOLEAN : watch' = callFn([watch EXCEPT !.clear = clear])
  /\ UNCHANGED allButWatch

FnReturn ==
  /\ watch.pc = "fn"
  /\ \E failed \in BOOLEAN : watch' = afterFn(watch, failed)
  /\ UNCHANGED allButWatch

\* The ticker, created after the first call of fn, fires; its channel holds
\* one tick.
Tick ==
  /\ watch.pc = "select" \/ (watch.pc = "fn" /\ watch.calls >= 2)
  /\ ~watch.tick
  /\ watch' = [watch EXCEPT !.tick = TRUE]
  /\ UNCHANGED allButWatch

\* The signal handler of the command cancels the context.
Cancel ==
  /\ watch.pc \in {"fn", "select"}
  /\ ~watch.cancelled
  /\ watch' = [watch EXCEPT !.cancelled = TRUE]
  /\ UNCHANGED allButWatch

\* select: case <-ctx.Done()
SelectDone ==
  /\ watch.pc = "select" /\ watch.cancelled
  /\ watch' = [watch EXCEPT !.pc = "returned", !.ret = "nil"]
  /\ UNCHANGED allButWatch

\* select: case <-ticker.C
SelectTick ==
  /\ watch.pc = "select" /\ watch.tick
  /\ watch.calls < MaxWatchCalls
  /\ watch' = callFn([watch EXCEPT !.tick = FALSE, !.ticks = @ + 1])
  /\ UNCHANGED allButWatch

WatchInit == RequestIdle /\ LibraryIdle

WatchNext == WatchStart \/ FnReturn \/ Tick \/ Cancel \/ SelectDone \/ SelectTick

WatchSpec == WatchInit /\ [][WatchNext]_vars

\* fn returns, and a select that is ready for the cancellation again and
\* again takes that case at some time (select chooses among the ready cases
\* at random).
WatchLive == WatchSpec /\ WF_vars(FnReturn) /\ SF_vars(SelectDone)

\* What Watch keeps at every moment: fn is called once at the start and once
\* per tick taken, two calls never overlap, and the first error of fn is
\* returned with no call after it.
WatchSafe ==
  /\ watch.running \in {0, 1}
  /\ watch.running = 1 <=> watch.pc = "fn"
  /\ watch.pc # "idle" => watch.calls = watch.ticks + 1
  /\ watch.errs \in {0, 1}
  /\ watch.errs = 1 <=> (watch.pc = "returned" /\ watch.ret = "err")

----------------------------------------------------------------------------
(* LoginAndSaveToken *)

\* Profiles in the configuration file when LoginAndSaveToken runs.
SavedProfiles ==
  { [Name |-> "", URL |-> HTTPS \o <<"p">>, APIKey |-> "", Username |-> u,
     Token |-> t] : u \in {"", "old"}, t \in {"", "t0"} }

\* The profile the command hands to LoginAndSaveToken.
LoginProfiles ==
  [nil : {FALSE}, URL : {<<>>, HTTPS \o <<"p">>}, APIKey : {""},
   Username : {"admin"}, Token : {""}]

\* What do returns to Login when the client has the default retry bound.
LoginResponses ==
  {[present |-> TRUE, status |-> s, err |-> "none"] : s \in Statuses}
    \cup {[present |-> FALSE, status |-> 0, err |-> e] : e \in ErrKinds}

EmptyConfig == [Profiles |-> NoProfiles, CurrentProfile |-> ""]

\* config.Load: the file as it was written is read back; a file that cannot
\* be read or parsed is an error; of a file a failed write left behind, what
\* is there either fails to parse or parses as a configuration without
\* profiles.
Load(c, d) ==
  IF d = "intact" THEN {[err |-> "", cfg |-> c]}
  ELSE IF d = "unreadable"
  THEN {[err |-> "failed to read config file", cfg |-> EmptyConfig]}
  ELSE {[err |-> "failed to parse config file", cfg |-> EmptyConfig],
        [err |-> "", cfg |-> EmptyConfig]}

SaveOutcomes == {"written", "refused", "partial"}

\* Config.Save: os.WriteFile truncates the file and writes the data. It can
\* fail before the file is opened, which leaves the file alone, or after it
\* was truncated, which leaves a part of the data.
Save(stored, d, c, how) ==
  IF how = "written" THEN [err |-> "", cfg |-> c, disk |-> "intact"]
  ELSE IF how = "refused"
  THEN [err |-> "failed to write config file", cfg |-> stored, disk |-> d]
  ELSE [err |-> "failed to write config file", cfg |-> stored,
        disk |-> "partial"]

\* LoginAndSaveToken(profile, username, password), where do returns r with
\* body b, config.Load yields ld and the write of Save ends as how.
LoginAndSaveToken(stored, d, p, user, password, r, b, ld, how) ==
  LET nc == NewClient(p)
      o == LoginOutcome(r, b)
      name == ld.cfg.CurrentProfile
      gp == GetProfile([profiles |-> ld.cfg.Profiles], name)
      updated == [ld.cfg EXCEPT !.Profiles[name].Token = o.jwt,
                                !.Profiles[name].Username = user]
      sv == Save(stored, d, updated, how)
      same(tok, e) == [token |-> tok, err |-> e, cfg |-> stored, disk |-> d]
  IN IF nc.err # "" THEN same("", nc.err)
     ELSE IF user = "" \/ password = ""
     THEN same("", "username and password are required")
     ELSE IF o.res.kind # "success" THEN same("", "login")
     ELSE IF ld.err # "" THEN same(o.jwt, "logged in but failed to load config")
     ELSE IF name = "" THEN same(o.jwt, "logged in but no current profile set")
     ELSE IF gp.err # "" THEN same(o.jwt, "logged in but failed to get profile")
     ELSE IF sv.err # ""
     THEN [token |-> o.jwt, err |-> "logged in but failed to save token",
           cfg |-> sv.cfg, disk |-> sv.disk]
     ELSE [token |-> o.jwt, err |-> "", cfg |-> sv.cfg, disk |-> sv.disk]

allButConfig == <<token, apiKey, username, maxRetries, dryRun, requestVars, fnCall,
                  runs, watch>>

\* The command calls LoginAndSaveToken.
LoginAndSaveTokenCall ==
  /\ cfgCall = NoCfgCall
  /\ \E p \in LoginProfiles, user \in Usernames, password \in {"", "pw"},
        r \in LoginResponses, b \in RespBodies, ld \in Load(Config, disk),
        how \in SaveOutcomes :
       LET out == LoginAndSaveToken(Config, disk, p, user, password, r, b, ld, how)
       IN /\ Profiles' = out.cfg.Profiles
          /\ CurrentProfile' = out.cfg.CurrentProfile
          /\ disk' = out.disk
          /\ cfgCall' = [op |-> "LoginAndSaveToken", name |-> user,
                         err |-> out.err, before |-> Config, disk |-> disk,
                         token |-> out.token]
  /\ UNCHANGED allButConfig

\* The command ends; a later run of it calls LoginAndSaveToken again.
LoginSaveReturn ==
  /\ cfgCall # NoCfgCall
  /\ cfgCall' = NoCfgCall
  /\ UNCHANGED <<Profiles, CurrentProfile, disk, allButConfig>>

LoginSaveInit ==
  /\ RequestIdle
  /\ fnCall = NoCall /\ runs = NoRuns /\ watch = NoWatch
  /\ cfgCall = NoCfgCall
  /\ disk \in {"intact", "unreadable"}
  /\ \E D \in SUBSET {"a", "b"} :
       /\ Profiles \in [D -> SavedProfiles]
       /\ \A n \in D : Profiles[n].Name = ""
  /\ CurrentProfile \in {"", "a", "b"}

LoginSaveNext == LoginAndSaveTokenCall \/ LoginSaveReturn

LoginSaveSpec == LoginSaveInit /\ [][LoginSaveNext]_vars

\* C23: after LoginAndSaveToken returns without error the stored current
\* profile has the returned token and the login username and no other stored
\* profile is modified; when it returns a token with an error, the stored
\* configuration is as it was before the call.
C23_LoginAndSaveTokenPersists ==
  cfgCall.op = "LoginAndSaveToken" =>
    /\ cfgCall.err = "" =>
         /\ cfgCall.token # ""
         /\ disk = "intact"
         /\ CurrentProfile = cfgCall.before.CurrentProfile
         /\ CurrentProfile \in DOMAIN Profiles
         /\ Profiles[CurrentProfile].Token = cfgCall.token
         /\ Profiles[CurrentProfile].Username = cfgCall.name
         /\ DOMAIN Profiles = DOMAIN cfgCall.before.Profiles
         /\ \A n \in DOMAIN Profiles \ {CurrentProfile} :
              Profiles[n] = cfgCall.before.Profiles[n]
    /\ (cfgCall.err # "" /\ cfgCall.token # "") =>
         /\ Config = cfgCall.before
         /\ disk = cfgCall.disk

====
